---- MODULE Spec2Model ----
(***************************************************************************)
(* Model of packages/netlify-cms-lib-util/src/API.ts:                      *)
(*   - requestWithBackoff: retry with a shared cooldown lock on the API    *)
(*     handle (api.rateLimiter) and a setTimeout that releases it;         *)
(*   - readFile / readFileMetadata: read-through cache over localForage.   *)
(* JavaScript runs each piece of code between two awaits to completion,    *)
(* so every action below is one such piece: from the resumption of an      *)
(* await (or a call, or a timer callback) to the next await or return.     *)
(***************************************************************************)
EXTENDS Integers, Sequences, FiniteSets, TLC

\* ------------------------------------------------------------------ bounds
\* Number of requestWithBackoff invocations sharing one API handle.
NumCallers == 2

Callers == 1..NumCallers

\* The attempt argument of the outermost call: the default (1) and a caller
\* that passes a later attempt number explicitly.
StartAttempts == {1, 6}

\* ------------------------------------------------------- program constants
\* API.ts:69  if (attempt <= 5)
MaxAttempts == 5
\* API.ts:63  response.status === 429
TooManyRequests == 429
\* API.ts:85  1000 * timeout
MsPerSecond == 1000

\* Statuses the transport may answer with: a success, 429, and an error
\* status other than 429.
Statuses == {200, 429, 500}
\* Message of an error raised by the transport itself.
NetworkErrors == {"Failed to fetch"}
\* Body text of a 429 response.
Bodies == {"slow down"}
\* API.ts:64  .catch(() => 'Too many requests')
FallbackText == "Too many requests"

VARIABLES
  rateLimiter,  \* api.rateLimiter: 0 (undefined) or the id of a lock object
  locks,        \* heap of lock objects made by asyncLock(), by id
  timers,       \* pending setTimeout callbacks
  pc,           \* where each invocation stands
  attempt,      \* the attempt parameter of the innermost active call
  start,        \* the attempt parameter of the outermost call
  settled,      \* what the transport promise of line 62 settled with
  response,     \* the 429 response whose body is being read (line 64)
  result,       \* what the caller of the outermost call observed
  req,          \* the req parameter of the innermost active call
  sent,         \* the descriptor last handed to the transport
  dispatches,   \* number of transport calls made
  fails,        \* number of catch blocks entered
  scheduled     \* number of setTimeout calls made

backoffVars == <<rateLimiter, locks, timers, pc, attempt, start, settled,
                 response, result, req, sent, dispatches, fails, scheduled>>

NoOutcome == [kind |-> "none", status |-> 0, msg |-> "", at |-> 0]
NoResponse == [status |-> 0, body |-> "", readable |-> TRUE]
NotSettled == [kind |-> "none", status |-> 0, body |-> "", readable |-> TRUE]

\* The request descriptor the caller passes in; deco counts the decorations.
Req(c) == [url |-> c, deco |-> 0]
NoReq == [url |-> 0, deco |-> 0]

\* --------------------------------------------------- read-through cache
\* Number of readFile / readFileMetadata calls made, numbered in the order of
\* their calls.
NumReaders == 2

Readers == 1..NumReaders

VARIABLES
  store,     \* localForage: the items stored, by key
  writer,    \* which call stored the item of each key
  rpc,       \* where each cache call stands
  call,      \* the function called and its arguments id and isText
  key,       \* const key
  content,   \* const content / const metadata
  ret,       \* the value the call returned
  gets,      \* number of localForage.getItem calls made by the call
  fetches,   \* number of fetchContent / fetchMetadata calls made by the call
  sets,      \* number of localForage.setItem calls made by the call
  alone,     \* no other call was in progress since the call began
  thrown     \* the error a rejected getItem, fetch or setItem carried

cacheVars == <<store, writer, rpc, call, key, content, ret, gets, fetches,
               sets, alone, thrown>>

\* Strings are sequences of characters.
Chars(str) ==
  CASE str = "" -> <<>>
    [] str = "a" -> <<"a">>
    [] str = "a.blob" -> <<"a", ".", "b", "l", "o", "b">>

\* Values of the id argument: null, undefined, the empty string, and two
\* content ids of which one ends in the suffix of the binary key.
NullId == [type |-> "null", s |-> <<>>]
UndefinedId == [type |-> "undefined", s |-> <<>>]
StringId(str) == [type |-> "string", s |-> Chars(str)]
StringIds == {StringId(""), StringId("a"), StringId("a.blob")}
Ids == {NullId, UndefinedId} \cup StringIds

\* Items: what getItem resolves with and what the fetch functions produce.
\* null is the absent item; a string, a Blob or a FileMetadata object else.
NullItem == [type |-> "null", v |-> ""]
Str(v) == [type |-> "string", v |-> v]
Blob(v) == [type |-> "blob", v |-> v]
Metadata(v) == [type |-> "object", v |-> v]

\* What fetchContent may resolve with: the empty text, a text, a Blob.
Contents == {Str(""), Str("x"), Blob("y")}
\* The errors the store and the fetch functions may reject with.
Error(msg) == [type |-> "error", v |-> msg]
GetItemErrors == {Error("getItem failed")}
FetchErrors == {Error("fetch failed")}
SetItemErrors == {Error("setItem failed")}

\* What fetchMetadata may resolve with.
Metadatas == {Metadata("m"), Metadata("n")}

\* if (cached), written cached !== null
TruthyNotNull(x) == x.type # "null"

\* JavaScript truthiness: if (id), if (cached).
Truthy(x) == x.type # "null" /\ ~(x.type = "string" /\ x.v = "")
\* if (id), written id != null
TruthyIdNotNull(id) == id.type = "string"

TruthyId(id) == id.type = "string" /\ id.s # <<>>

\* `gh.${id}`, `gh.${id}.blob`, `gh.${id}.meta`
TextKey(id) == <<"g", "h", ".">> \o id.s

\* `gh.${id}.blob`, the suffix dropped
BlobKeyNoSuffix(id) == <<"g", "h", ".">> \o id.s

BlobKey(id) == <<"g", "h", ".">> \o id.s \o <<".", "b", "l", "o", "b">>
\* `gh.${id}.meta`, written with the key of readFile in text mode
MetadataKeyAsTextKey(id) == <<"g", "h", ".">> \o id.s

getFileMetadataKey(id) == <<"g", "h", ".">> \o id.s \o <<".", "m", "e", "t", "a">>

\* const key = id ? (isText ? `gh.${id}` : `gh.${id}.blob`) : null
NoKey == <<>>
ReadFileKey(id, isText) ==
  IF TruthyId(id) THEN (IF isText THEN TextKey(id) ELSE BlobKey(id))
                  ELSE NoKey

NoCall == [fn |-> "none", id |-> NullId, isText |-> FALSE]

\* localForage.getItem(k), resolving with null whatever is stored
GetItemNothing(k) == NullItem

\* localForage.getItem(k): the item stored under k, null when there is none.
GetItem(k) == IF k \in DOMAIN store THEN store[k] ELSE NullItem

\* localForage.setItem(k, v), written so that a stored item is kept
SetItemIfAbsent(k, v) ==
  [x \in DOMAIN store \cup {k} |-> IF x \in DOMAIN store THEN store[x] ELSE v]

\* The store after localForage.setItem(k, v).
SetItem(k, v) ==
  [x \in DOMAIN store \cup {k} |-> IF x = k THEN v ELSE store[x]]

\* alone, as reader r begins a call.
Begins(r) ==
  [q \in Readers |->
     IF q = r THEN \A p \in Readers \ {r} :
                     rpc[p] \in {"idle", "done", "failed"}
     ELSE IF rpc[q] \in {"idle", "done", "failed"} THEN alone[q]
     ELSE FALSE]

\* --------------------------------------------------------------- asyncLock
\* A lock object: held or free, and the FIFO queue of suspended acquirers.
NewLock == [held |-> FALSE, queue |-> <<>>]

\* acquire(): the lock after the call; the caller is granted the lock at once
\* when it is free, and queued otherwise.
AcquireLock(l, c) ==
  IF l.held THEN [l EXCEPT !.queue = Append(@, c)]
            ELSE [l EXCEPT !.held = TRUE]

AcquireGranted(l) == ~l.held

\* release(): the next waiter, if any, takes the lock; else it becomes free.
ReleaseLock(l) ==
  IF l.queue = <<>> THEN [l EXCEPT !.held = FALSE]
                    ELSE [l EXCEPT !.queue = Tail(@)]

Woken(l) == IF l.queue = <<>> THEN {} ELSE {Head(l.queue)}

\* ------------------------------------------------------ requestWithBackoff
\* api.buildRequest(req)
BuildRequest(r) == [r EXCEPT !.deco = @ + 1]

\* attempt <= 5, written attempt < 5
MayRetryOffByOne(a) == a < MaxAttempts

\* attempt <= 5
MayRetry(a) == a <= MaxAttempts

\* attempt + 1, written attempt + 2
SkipAttempt(a) == a + 2

\* requestWithBackoff(api, req, attempt + 1)
NextAttempt(a) == a + 1

\* attempt * attempt, written as an exponential backoff
TimeoutExponential(a) == 2 ^ a

\* const timeout = attempt * attempt
Timeout(a) == a * a

\* response.status === 429, written as a test for any error status
IsErrorStatus(status) == status >= 400

\* response.status === 429
IsThrottled(status) == status = TooManyRequests

\* the body text dropped: always the fallback
ThrottleTextFallbackOnly(ans) == FallbackText

\* new Error(text), text being the body or the fallback
ThrottleText(ans) == IF ans.readable THEN ans.body ELSE FallbackText

\* if (!api.rateLimiter), written so that only the first failure installs
NoCooldownEver == rateLimiter = 0 /\ locks = <<>>

\* if (!api.rateLimiter), the test left out: every failure installs
NoCooldownAlways == TRUE

\* if (!api.rateLimiter)
NoCooldown == rateLimiter = 0

\* What the transport may resolve with; only a 429's body is ever read.
Responses ==
  {r \in [status : Statuses, body : Bodies, readable : BOOLEAN] :
     r.status = TooManyRequests \/ r.readable}

\* api.rateLimiter = asyncLock(), the acquire() of line 80 left out
InstalledLockNotTaken(c) == NewLock

\* api.rateLimiter = asyncLock(); api.rateLimiter.acquire(): the lock
\* installed, taken at once by the call that installs it (lines 79-80).
InstalledLock(c) == AcquireLock(NewLock, c)

\* requestWithBackoff(api, req, attempt + 1), written with the decorated
\* request as the descriptor of the retry
RetryWithBuiltRequest(rq, built) == built

\* requestWithBackoff(api, req, attempt + 1): the descriptor handed to the
\* retry (line 87), rq being req and built being builtRequest.
RetryDescriptor(rq, built) == rq

\* Lines 55-62 of a call with descriptor rq and attempt a, the handle's lock
\* field being rl and the heap lks: wait on the cooldown lock when one is installed, else
\* decorate and dispatch without suspending.
Enter(c, rq, a, rl, lks) ==
  /\ req' = [req EXCEPT ![c] = rq]
  /\ attempt' = [attempt EXCEPT ![c] = a]
  /\ IF rl # 0
       THEN /\ locks' = [lks EXCEPT ![rl] = AcquireLock(@, c)]
            /\ pc' = [pc EXCEPT ![c] =
                        IF AcquireGranted(lks[rl]) THEN "acquired"
                                                   ELSE "waiting"]
            /\ UNCHANGED <<sent, dispatches>>
       ELSE /\ locks' = lks
            /\ pc' = [pc EXCEPT ![c] = "inflight"]
            /\ sent' = [sent EXCEPT ![c] = BuildRequest(rq)]
            /\ dispatches' = [dispatches EXCEPT ![c] = @ + 1]

\* requestWithBackoff(api, req, a) is called; the invocations are numbered
\* in the order of their calls.
Start(c, a) ==
  /\ UNCHANGED cacheVars
  /\ pc[c] = "idle"
  /\ \A d \in Callers : d < c => pc[d] # "idle"
  /\ start' = [start EXCEPT ![c] = a]
  /\ Enter(c, Req(c), a, rateLimiter, locks)
  /\ UNCHANGED <<rateLimiter, timers, settled, response, result, fails,
                 scheduled>>

\* The await on acquire() resumes: decorate and dispatch (lines 60-62).
Resume(c) ==
  /\ UNCHANGED cacheVars
  /\ pc[c] = "acquired"
  /\ pc' = [pc EXCEPT ![c] = "inflight"]
  /\ sent' = [sent EXCEPT ![c] = BuildRequest(req[c])]
  /\ dispatches' = [dispatches EXCEPT ![c] = @ + 1]
  /\ UNCHANGED <<rateLimiter, locks, timers, attempt, start, settled,
                 response, result, req, fails, scheduled>>

\* The catch block, lines 68-91, entered with an error of message msg.
Catch(c, msg) ==
  LET err == [kind |-> "error", status |-> 0, msg |-> msg, at |-> attempt[c]]
      id == Len(locks) + 1
  IN
  /\ fails' = [fails EXCEPT ![c] = @ + 1]
  /\ IF MayRetry(attempt[c])
       THEN /\ IF NoCooldown
                 THEN /\ rateLimiter' = id
                      /\ timers' = timers \cup
                           {[lock |-> id, attempt |-> attempt[c],
                             ms |-> MsPerSecond * Timeout(attempt[c])]}
                      /\ scheduled' = scheduled + 1
                      /\ Enter(c, RetryDescriptor(req[c], sent[c]),
                               NextAttempt(attempt[c]), id,
                               Append(locks, InstalledLock(c)))
                 ELSE /\ UNCHANGED <<rateLimiter, timers, scheduled>>
                      /\ Enter(c, RetryDescriptor(req[c], sent[c]),
                               NextAttempt(attempt[c]), rateLimiter, locks)
            /\ UNCHANGED result
       ELSE /\ pc' = [pc EXCEPT ![c] = "raised"]
            /\ result' = [result EXCEPT ![c] = err]
            /\ UNCHANGED <<rateLimiter, locks, timers, attempt, req, sent,
                           dispatches, scheduled>>

\* The transport promise awaited on line 62 settles: it rejects with an
\* error or resolves with a response.
TransportSettles(c) ==
  /\ UNCHANGED cacheVars
  /\ pc[c] = "inflight"
  /\ pc' = [pc EXCEPT ![c] = "settled"]
  /\ \/ \E m \in NetworkErrors :
          settled' = [settled EXCEPT ![c] =
            [kind |-> "throw", status |-> 0, body |-> m, readable |-> TRUE]]
     \/ \E r \in Responses :
          settled' = [settled EXCEPT ![c] =
            [kind |-> "response", status |-> r.status, body |-> r.body,
             readable |-> r.readable]]
  /\ UNCHANGED <<rateLimiter, locks, timers, attempt, start, response,
                 result, req, sent, dispatches, fails, scheduled>>

\* The await on line 62 resumes with an error: the catch block runs.
RequestThrows(c) ==
  /\ UNCHANGED cacheVars
  /\ pc[c] = "settled"
  /\ settled[c].kind = "throw"
  /\ Catch(c, settled[c].body)
  /\ settled' = [settled EXCEPT ![c] = NotSettled]
  /\ UNCHANGED <<start, response>>

\* The await on line 62 resumes with a response: lines 63-67.
RequestResolves(c) ==
  /\ UNCHANGED cacheVars
  /\ pc[c] = "settled"
  /\ settled[c].kind = "response"
  /\ IF IsThrottled(settled[c].status)
       THEN /\ pc' = [pc EXCEPT ![c] = "reading"]
            /\ response' = [response EXCEPT ![c] =
                 [status |-> settled[c].status, body |-> settled[c].body,
                  readable |-> settled[c].readable]]
            /\ UNCHANGED result
       ELSE /\ pc' = [pc EXCEPT ![c] = "returned"]
            /\ result' = [result EXCEPT ![c] =
                 [kind |-> "response", status |-> settled[c].status,
                  msg |-> settled[c].body, at |-> attempt[c]]]
            /\ UNCHANGED response
  /\ settled' = [settled EXCEPT ![c] = NotSettled]
  /\ UNCHANGED <<rateLimiter, locks, timers, attempt, start, req, sent,
                 dispatches, fails, scheduled>>

\* response.text() settles (line 64) and the error is thrown (line 65).
BodyRead(c) ==
  /\ UNCHANGED cacheVars
  /\ pc[c] = "reading"
  /\ Catch(c, ThrottleText(response[c]))
  /\ response' = [response EXCEPT ![c] = NoResponse]
  /\ UNCHANGED <<start, settled>>

\* api.rateLimiter = undefined, the assignment left out
FieldKept(rl) == rl

\* api.rateLimiter = undefined (line 83): the lock field after the callback.
FieldCleared(rl) == 0

\* The setTimeout callback, lines 81-85.
TimerFires(t) ==
  /\ UNCHANGED cacheVars
  /\ t \in timers
  /\ timers' = timers \ {t}
  /\ IF rateLimiter # 0
       THEN /\ locks' = [locks EXCEPT ![rateLimiter] = ReleaseLock(@)]
            /\ pc' = [c \in Callers |->
                        IF c \in Woken(locks[rateLimiter])
                          THEN "acquired" ELSE pc[c]]
       ELSE UNCHANGED <<locks, pc>>
  /\ rateLimiter' = FieldCleared(rateLimiter)
  /\ UNCHANGED <<attempt, start, settled, response, result, req, sent,
                 dispatches, fails, scheduled>>

\* ---------------------------------------------------------------- readFile
\* readFile(id, fetchContent, localForage, isText) is called: lines 100-101,
\* and lines 102-106 too when there is no key, as nothing is awaited then.
ReadFileCall(r, id, isText) ==
  /\ rpc[r] = "idle"
  /\ \A q \in Readers : q < r => rpc[q] # "idle"
  /\ call' = [call EXCEPT ![r] =
                [fn |-> "readFile", id |-> id, isText |-> isText]]
  /\ key' = [key EXCEPT ![r] = ReadFileKey(id, isText)]
  /\ IF ReadFileKey(id, isText) # NoKey
       THEN /\ rpc' = [rpc EXCEPT ![r] = "getting"]
            /\ gets' = [gets EXCEPT ![r] = @ + 1]
            /\ UNCHANGED fetches
       ELSE /\ rpc' = [rpc EXCEPT ![r] = "fetching"]
            /\ fetches' = [fetches EXCEPT ![r] = @ + 1]
            /\ UNCHANGED gets
  /\ alone' = Begins(r)
  /\ UNCHANGED <<store, writer, content, ret, sets>>
  /\ UNCHANGED <<backoffVars, thrown>>

\* getItem resolves with the stored item: lines 101-106.
ReadFileGot(r) ==
  /\ rpc[r] = "getting"
  /\ call[r].fn = "readFile"
  /\ IF Truthy(GetItem(key[r]))
       THEN /\ rpc' = [rpc EXCEPT ![r] = "done"]
            /\ ret' = [ret EXCEPT ![r] = GetItem(key[r])]
            /\ UNCHANGED fetches
       ELSE /\ rpc' = [rpc EXCEPT ![r] = "fetching"]
            /\ fetches' = [fetches EXCEPT ![r] = @ + 1]
            /\ UNCHANGED ret
  /\ UNCHANGED <<store, writer, call, key, content, gets, sets, alone>>
  /\ UNCHANGED <<backoffVars, thrown>>

\* fetchContent resolves: lines 106-110.
ReadFileFetched(r) ==
  /\ rpc[r] = "fetching"
  /\ call[r].fn = "readFile"
  /\ \E v \in Contents :
       /\ content' = [content EXCEPT ![r] = v]
       /\ IF key[r] # NoKey
            THEN /\ rpc' = [rpc EXCEPT ![r] = "setting"]
                 /\ sets' = [sets EXCEPT ![r] = @ + 1]
                 /\ UNCHANGED ret
            ELSE /\ rpc' = [rpc EXCEPT ![r] = "done"]
                 /\ ret' = [ret EXCEPT ![r] = v]
                 /\ UNCHANGED sets
  /\ UNCHANGED <<store, writer, call, key, gets, fetches, alone>>
  /\ UNCHANGED <<backoffVars, thrown>>

\* setItem resolves, the item being stored: lines 108-110.
ReadFileStored(r) ==
  /\ rpc[r] = "setting"
  /\ call[r].fn = "readFile"
  /\ store' = SetItem(key[r], content[r])
  /\ writer' = [x \in DOMAIN writer \cup {key[r]} |->
                  IF x = key[r] THEN call[r] ELSE writer[x]]
  /\ rpc' = [rpc EXCEPT ![r] = "done"]
  /\ ret' = [ret EXCEPT ![r] = content[r]]
  /\ UNCHANGED <<call, key, content, gets, fetches, sets, alone>>
  /\ UNCHANGED <<backoffVars, thrown>>

\* -------------------------------------------------------- readFileMetadata
\* readFileMetadata(id, fetchMetadata, localForage) is called: lines 125-126.
ReadFileMetadataCall(r, id) ==
  /\ rpc[r] = "idle"
  /\ \A q \in Readers : q < r => rpc[q] # "idle"
  /\ call' = [call EXCEPT ![r] =
                [fn |-> "readFileMetadata", id |-> id, isText |-> FALSE]]
  /\ key' = [key EXCEPT ![r] = getFileMetadataKey(id)]
  /\ rpc' = [rpc EXCEPT ![r] = "getting"]
  /\ gets' = [gets EXCEPT ![r] = @ + 1]
  /\ alone' = Begins(r)
  /\ UNCHANGED <<store, writer, content, ret, fetches, sets>>
  /\ UNCHANGED <<backoffVars, thrown>>

\* getItem resolves with the stored item: lines 126-130.
ReadFileMetadataGot(r) ==
  /\ rpc[r] = "getting"
  /\ call[r].fn = "readFileMetadata"
  /\ IF Truthy(GetItem(key[r]))
       THEN /\ rpc' = [rpc EXCEPT ![r] = "done"]
            /\ ret' = [ret EXCEPT ![r] = GetItem(key[r])]
            /\ UNCHANGED fetches
       ELSE /\ rpc' = [rpc EXCEPT ![r] = "fetching"]
            /\ fetches' = [fetches EXCEPT ![r] = @ + 1]
            /\ UNCHANGED ret
  /\ UNCHANGED <<store, writer, call, key, content, gets, sets, alone>>
  /\ UNCHANGED <<backoffVars, thrown>>

\* fetchMetadata resolves: lines 130-131.
ReadFileMetadataFetched(r) ==
  /\ rpc[r] = "fetching"
  /\ call[r].fn = "readFileMetadata"
  /\ \E v \in Metadatas :
       /\ rpc' = [rpc EXCEPT ![r] = "setting"]
       /\ content' = [content EXCEPT ![r] = v]
       /\ sets' = [sets EXCEPT ![r] = @ + 1]
  /\ UNCHANGED <<store, writer, call, key, ret, gets, fetches, alone>>
  /\ UNCHANGED <<backoffVars, thrown>>

\* setItem resolves, the item being stored: lines 131-132.
ReadFileMetadataStored(r) ==
  /\ rpc[r] = "setting"
  /\ call[r].fn = "readFileMetadata"
  /\ store' = SetItem(key[r], content[r])
  /\ writer' = [x \in DOMAIN writer \cup {key[r]} |->
                  IF x = key[r] THEN call[r] ELSE writer[x]]
  /\ rpc' = [rpc EXCEPT ![r] = "done"]
  /\ ret' = [ret EXCEPT ![r] = content[r]]
  /\ UNCHANGED <<call, key, content, gets, fetches, sets, alone>>
  /\ UNCHANGED <<backoffVars, thrown>>

\* ------------------------------------------------- rejected awaits
\* An await that rejects inside readFile or readFileMetadata, neither of
\* which has a try block: the error the caller sees; the same, written with
\* a handler that raises an error of its own
RaiseOwnError(e) == Error("read failed")

\* An await that rejects inside readFile or readFileMetadata, neither of
\* which has a try block: the error the caller sees.
Raise(e) == e

\* Call r ends with the rejection e of the promise it awaits; what it had
\* fetched goes with it.
Rejected(r, e) ==
  /\ rpc' = [rpc EXCEPT ![r] = "failed"]
  /\ thrown' = [thrown EXCEPT ![r] = e]
  /\ ret' = [ret EXCEPT ![r] = Raise(e)]
  /\ content' = [content EXCEPT ![r] = NullItem]
  /\ UNCHANGED <<store, writer, call, key, gets, fetches, sets, alone>>
  /\ UNCHANGED backoffVars

\* getItem rejects (line 101).
ReadFileGetItemFails(r) ==
  /\ rpc[r] = "getting"
  /\ call[r].fn = "readFile"
  /\ \E e \in GetItemErrors : Rejected(r, e)

\* fetchContent rejects (line 106).
ReadFileFetchFails(r) ==
  /\ rpc[r] = "fetching"
  /\ call[r].fn = "readFile"
  /\ \E e \in FetchErrors : Rejected(r, e)

\* setItem rejects (line 108), nothing being stored.
ReadFileSetItemFails(r) ==
  /\ rpc[r] = "setting"
  /\ call[r].fn = "readFile"
  /\ \E e \in SetItemErrors : Rejected(r, e)

\* getItem rejects (line 126).
ReadFileMetadataGetItemFails(r) ==
  /\ rpc[r] = "getting"
  /\ call[r].fn = "readFileMetadata"
  /\ \E e \in GetItemErrors : Rejected(r, e)

\* fetchMetadata rejects (line 130).
ReadFileMetadataFetchFails(r) ==
  /\ rpc[r] = "fetching"
  /\ call[r].fn = "readFileMetadata"
  /\ \E e \in FetchErrors : Rejected(r, e)

\* setItem rejects (line 131), nothing being stored.
ReadFileMetadataSetItemFails(r) ==
  /\ rpc[r] = "setting"
  /\ call[r].fn = "readFileMetadata"
  /\ \E e \in SetItemErrors : Rejected(r, e)

\* The API handle as constructed, no call of requestWithBackoff made yet.
NoRequestYet ==
  /\ rateLimiter = 0
  /\ locks = <<>>
  /\ timers = {}
  /\ pc = [c \in Callers |-> "idle"]
  /\ attempt = [c \in Callers |-> 0]
  /\ start = [c \in Callers |-> 0]
  /\ settled = [c \in Callers |-> NotSettled]
  /\ response = [c \in Callers |-> NoResponse]
  /\ result = [c \in Callers |-> NoOutcome]
  /\ req = [c \in Callers |-> NoReq]
  /\ sent = [c \in Callers |-> NoReq]
  /\ dispatches = [c \in Callers |-> 0]
  /\ fails = [c \in Callers |-> 0]
  /\ scheduled = 0

\* The store empty, no call of readFile or readFileMetadata made yet.
NoReadYet ==
  /\ store = [k \in {} |-> NullItem]
  /\ writer = [k \in {} |-> NoCall]
  /\ rpc = [r \in Readers |-> "idle"]
  /\ call = [r \in Readers |-> NoCall]
  /\ key = [r \in Readers |-> NoKey]
  /\ content = [r \in Readers |-> NullItem]
  /\ ret = [r \in Readers |-> NullItem]
  /\ gets = [r \in Readers |-> 0]
  /\ fetches = [r \in Readers |-> 0]
  /\ sets = [r \in Readers |-> 0]
  /\ alone = [r \in Readers |-> FALSE]
  /\ thrown = [r \in Readers |-> NullItem]

\* requestWithBackoff and the cache helpers share no state: each
\* specification runs one of the two, the other having no caller at all.
NoReaders ==
  /\ store = <<>> /\ writer = <<>> /\ rpc = <<>> /\ call = <<>>
  /\ key = <<>> /\ content = <<>> /\ ret = <<>> /\ gets = <<>>
  /\ fetches = <<>> /\ sets = <<>> /\ alone = <<>> /\ thrown = <<>>

NoCallers ==
  /\ rateLimiter = 0 /\ locks = <<>> /\ timers = {} /\ scheduled = 0
  /\ pc = <<>> /\ attempt = <<>> /\ start = <<>> /\ settled = <<>>
  /\ response = <<>> /\ result = <<>> /\ req = <<>> /\ sent = <<>>
  /\ dispatches = <<>> /\ fails = <<>>

Init == NoRequestYet /\ NoReaders

CacheInit == NoReadYet /\ NoCallers

Next ==
  \/ \E c \in Callers, a \in StartAttempts : Start(c, a)
  \/ \E c \in Callers : Resume(c)
  \/ \E c \in Callers : TransportSettles(c)
  \/ \E c \in Callers : RequestThrows(c)
  \/ \E c \in Callers : RequestResolves(c)
  \/ \E c \in Callers : BodyRead(c)
  \/ \E t \in timers : TimerFires(t)

CacheNext ==
  \/ \E r \in Readers, id \in Ids, isText \in BOOLEAN :
       ReadFileCall(r, id, isText)
  \/ \E r \in Readers : ReadFileGot(r)
  \/ \E r \in Readers : ReadFileFetched(r)
  \/ \E r \in Readers : ReadFileStored(r)
  \/ \E r \in Readers, id \in StringIds : ReadFileMetadataCall(r, id)
  \/ \E r \in Readers : ReadFileMetadataGot(r)
  \/ \E r \in Readers : ReadFileMetadataFetched(r)
  \/ \E r \in Readers : ReadFileMetadataStored(r)

vars == <<backoffVars, cacheVars>>

\* Calls of requestWithBackoff on one API handle.
Spec == Init /\ [][Next]_vars

\* The same, the transport, the body read, the timers and the resumption of
\* every satisfied await being bound to happen.
FairSpec ==
  /\ Spec
  /\ \A c \in Callers :
       /\ WF_vars(Resume(c))
       /\ WF_vars(TransportSettles(c))
       /\ WF_vars(RequestThrows(c))
       /\ WF_vars(RequestResolves(c))
       /\ WF_vars(BodyRead(c))
  /\ WF_vars(\E t \in timers : TimerFires(t))

\* Calls of readFile and readFileMetadata on one store, the store and the
\* fetch functions never failing.
CacheSpec == CacheInit /\ [][CacheNext]_vars

\* The ids of the calls made when the store and the fetch functions may
\* fail: an absent one and a content id.
FailIds == {NullId, StringId("a")}

\* The steps of the calls when the store and the fetch functions may fail.
CacheFailNext ==
  \/ \E r \in Readers, id \in FailIds, isText \in BOOLEAN :
       ReadFileCall(r, id, isText)
  \/ \E r \in Readers : ReadFileGot(r)
  \/ \E r \in Readers : ReadFileFetched(r)
  \/ \E r \in Readers : ReadFileStored(r)
  \/ \E r \in Readers, id \in FailIds \cap StringIds :
       ReadFileMetadataCall(r, id)
  \/ \E r \in Readers : ReadFileMetadataGot(r)
  \/ \E r \in Readers : ReadFileMetadataFetched(r)
  \/ \E r \in Readers : ReadFileMetadataStored(r)
  \/ \E r \in Readers : ReadFileGetItemFails(r)
  \/ \E r \in Readers : ReadFileFetchFails(r)
  \/ \E r \in Readers : ReadFileSetItemFails(r)
  \/ \E r \in Readers : ReadFileMetadataGetItemFails(r)
  \/ \E r \in Readers : ReadFileMetadataFetchFails(r)
  \/ \E r \in Readers : ReadFileMetadataSetItemFails(r)

\* Calls of readFile and readFileMetadata on one store, every getItem,
\* fetch and setItem either resolving or rejecting.
CacheFailSpec == CacheInit /\ [][CacheFailNext]_vars

\* ------------------------------------------------------------------ claims
Min(a, b) == IF a <= b THEN a ELSE b

\* c is the only invocation made on the handle.
Single(c) == \A d \in Callers \ {c} : pc[d] = "idle"

Completed(c) == pc[c] \in {"returned", "raised"}

\* C1: with the transport always settling, every body read settling, every
\* timer firing and every satisfied await resuming, every invocation of
\* requestWithBackoff made on the handle eventually returns a response or
\* raises the terminal error, whatever the number of invocations sharing the
\* handle and its cooldown lock.
C1_EveryInvocationCompletes ==
  \A c \in Callers : (pc[c] # "idle") ~> Completed(c)

\* C2: a single caller that starts at attempt 1 raises no error while the
\* transport has failed at most 4 times, is never left suspended on a lock
\* nobody will release, and when it returns, it returns a non-429 response,
\* obtained on attempt k+1 after exactly k+1 dispatches, k being the number
\* of failures.
C2_ReturnsAfterKFailures ==
  \A c \in Callers :
    (Single(c) /\ start[c] = 1) =>
      /\ (fails[c] <= 4 => pc[c] # "raised")
      /\ (pc[c] = "waiting" =>
            /\ rateLimiter # 0
            /\ Head(locks[rateLimiter].queue) = c
            /\ \E t \in timers : t.lock = rateLimiter)
      /\ (pc[c] = "returned" =>
            /\ result[c].kind = "response"
            /\ result[c].status # 429
            /\ result[c].at = fails[c] + 1
            /\ dispatches[c] = fails[c] + 1)

C2_Witness ==
  \E c \in Callers :
    /\ Single(c) /\ start[c] = 1
    /\ pc[c] = "returned" /\ fails[c] = 4 /\ dispatches[c] = 5

\* C3, as stated: a single caller whose transport fails k times (1 <= k <= 4)
\* and then succeeds has installed exactly one cooldown lock and scheduled
\* exactly one release timer.
C3_ExactlyOneCooldown ==
  \A c \in Callers :
    (Single(c) /\ start[c] = 1 /\ pc[c] = "returned" /\ fails[c] \in 1..4) =>
      (Len(locks) = 1 /\ scheduled = 1)

\* C3, amended: a single caller whose transport fails k times (1 <= k <= 4)
\* and then succeeds has installed exactly k cooldown locks and scheduled
\* exactly k release timers, one per failed attempt, and never more than
\* one timer is pending at a time.
C3_OneCooldownPerFailure ==
  \A c \in Callers :
    (Single(c) /\ start[c] = 1) =>
      /\ Cardinality(timers) <= 1
      /\ (pc[c] = "returned" /\ fails[c] \in 1..4) =>
           (Len(locks) = fails[c] /\ scheduled = fails[c])

C3_Witness ==
  \E c \in Callers :
    /\ Single(c) /\ start[c] = 1
    /\ pc[c] = "returned" /\ fails[c] = 4 /\ Len(locks) = 4 /\ scheduled = 4

\* C4: a single caller that starts at attempt 1 raises an error only after
\* 6 failed attempts; the error is the one of the 6th failure; exactly 6
\* dispatches were made, and no 7th attempt is ever started.
C4_RaisesSixthError ==
  \A c \in Callers :
    (Single(c) /\ start[c] = 1) =>
      /\ attempt[c] <= 6 /\ dispatches[c] <= 6 /\ fails[c] <= 6
      /\ (fails[c] = 6 => pc[c] = "raised")
      /\ (pc[c] = "raised" =>
            /\ fails[c] = 6
            /\ dispatches[c] = 6
            /\ attempt[c] = 6
            /\ result[c].kind = "error"
            /\ result[c].at = 6)

C4_Witness ==
  \E c \in Callers :
    /\ Single(c) /\ start[c] = 1
    /\ pc[c] = "raised" /\ fails[c] = 6 /\ result[c].at = 6

\* C5: every timer was scheduled, together with a lock, by a failing attempt
\* n in 1..5 and lasts 1000*n*n ms; a single caller that starts at attempt 1
\* has scheduled one timer per failure up to the 5th, the pending one being
\* that of its latest failure (so 1, 4, 9, 16, 25 s in that order), and its
\* 6th failure schedules none; a caller that starts at attempt 6 schedules
\* none.
C5_QuadraticCooldown ==
  /\ scheduled = Len(locks)
  /\ \A t \in timers :
       /\ t.attempt \in 1..5
       /\ t.ms = 1000 * t.attempt * t.attempt
       /\ t.lock \in 1..Len(locks)
  /\ \A c \in Callers :
       /\ (Single(c) /\ start[c] = 1) =>
            /\ scheduled = Min(fails[c], 5)
            /\ \A t \in timers : t.attempt = fails[c] /\ t.lock = scheduled
            /\ (pc[c] = "raised" => timers = {} /\ rateLimiter = 0)
       /\ (Single(c) /\ start[c] = 6) =>
            (scheduled = 0 /\ rateLimiter = 0 /\ timers = {})

C5_Witness ==
  \E c \in Callers :
    /\ Single(c) /\ start[c] = 1 /\ fails[c] = 5 /\ scheduled = 5
    /\ \E t \in timers : t.attempt = 5 /\ t.ms = 25000

NonThrottled(c) ==
  /\ pc[c] = "settled"
  /\ settled[c].kind = "response"
  /\ settled[c].status # 429

C6_Step ==
  \A c \in Callers :
    /\ (NonThrottled(c) /\ pc'[c] # "settled") =>
         /\ pc'[c] = "returned"
         /\ result'[c] = [kind |-> "response", status |-> settled[c].status,
                          msg |-> settled[c].body, at |-> attempt[c]]
         /\ attempt'[c] = attempt[c]
         /\ dispatches'[c] = dispatches[c]
         /\ fails'[c] = fails[c]
         /\ rateLimiter' = rateLimiter
         /\ locks' = locks
         /\ timers' = timers
         /\ scheduled' = scheduled
    /\ pc[c] = "returned" =>
         (pc'[c] = "returned" /\ result'[c] = result[c]
            /\ dispatches'[c] = dispatches[c])

C6_NoFailureNoCooldown ==
  (\A c \in Callers : fails[c] = 0) =>
    /\ locks = <<>> /\ rateLimiter = 0 /\ timers = {} /\ scheduled = 0
    /\ \A c \in Callers :
         pc[c] = "returned" => (attempt[c] = start[c] /\ dispatches[c] = 1)

\* C6: the piece of code that resumes with a response of a status other than
\* 429 returns that very response from the same attempt, dispatches nothing
\* more then or later, and leaves the lock field, the locks and the timers as
\* they are; and as long as no attempt has failed, no cooldown lock or timer
\* exists and every call that returned did so on its first attempt.
C6_PassThrough == [][C6_Step]_vars /\ []C6_NoFailureNoCooldown

C6_Witness ==
  \E c \in Callers :
    /\ pc[c] = "returned" /\ result[c].status = 500 /\ result[c].at = 1
    /\ start[c] = 1 /\ locks = <<>>

\* The retry and cooldown path of a failure of message msg in invocation c.
FailurePath(c, msg) ==
  IF attempt[c] <= 5
    THEN /\ pc'[c] \in {"waiting", "acquired"}
         /\ attempt'[c] = attempt[c] + 1
         /\ result'[c] = result[c]
         /\ rateLimiter' # 0
         /\ IF rateLimiter = 0
              THEN /\ scheduled' = scheduled + 1
                   /\ Len(locks') = Len(locks) + 1
                   /\ rateLimiter' = Len(locks')
                   /\ \E t \in timers' \ timers :
                        /\ t.lock = rateLimiter'
                        /\ t.ms = 1000 * attempt[c] * attempt[c]
              ELSE /\ rateLimiter' = rateLimiter
                   /\ timers' = timers
                   /\ scheduled' = scheduled
    ELSE /\ pc'[c] = "raised"
         /\ result'[c] = [kind |-> "error", status |-> 0, msg |-> msg,
                          at |-> attempt[c]]
         /\ rateLimiter' = rateLimiter
         /\ timers' = timers
         /\ scheduled' = scheduled

C7_Step ==
  \A c \in Callers :
    /\ (pc[c] = "settled" /\ settled[c].kind = "response"
          /\ settled[c].status = 429 /\ pc'[c] # "settled") =>
         /\ pc'[c] = "reading"
         /\ result'[c] = result[c]
         /\ response'[c].body = settled[c].body
         /\ response'[c].readable = settled[c].readable
    /\ (pc[c] = "reading" /\ pc'[c] # "reading") =>
         FailurePath(c, IF response[c].readable THEN response[c].body
                                                ELSE "Too many requests")
    /\ (pc[c] = "settled" /\ settled[c].kind = "throw"
          /\ pc'[c] # "settled") =>
         FailurePath(c, settled[c].body)

C7_Never429 ==
  \A c \in Callers :
    /\ pc[c] = "returned" <=> result[c].kind = "response"
    /\ result[c].kind = "response" => result[c].status # 429

\* C7: no call returns a response of status 429; the piece of code that
\* resumes with one reads its body, and the error made of the body text, or
\* of "Too many requests" when the read fails, takes the path a transport
\* error takes: while attempt <= 5 a retry with attempt + 1 behind the
\* cooldown lock, one being installed with its timer when none is, and on
\* attempt 6 that error raised to the caller.
C7_ThrottlingIsAFailure == [][C7_Step]_vars /\ []C7_Never429

C7_Witness ==
  \E c \in Callers :
    /\ pc[c] = "raised" /\ start[c] = 1
    /\ result[c].msg = "slow down" /\ result[c].at = 6

\* r is in a readFile call in text mode with an id that is not absent.
TextCall(r) ==
  /\ call[r].fn = "readFile"
  /\ call[r].isText
  /\ call[r].id.type = "string"
  /\ call[r].id.s # <<>>

\* The first call: the steps of a text-mode call that began, alone, on a
\* store with no entry for its key.
C8_FirstCall(r) ==
  /\ key[r] = <<"g", "h", ".">> \o call[r].id.s
  /\ (rpc[r] = "getting" /\ key[r] \notin DOMAIN store
        /\ rpc'[r] # "getting") =>
       (rpc'[r] = "fetching" /\ fetches'[r] = 1 /\ store' = store)
  /\ (rpc[r] = "fetching" /\ rpc'[r] # "fetching") =>
       (rpc'[r] = "setting" /\ content'[r] \in Contents
          /\ fetches'[r] = 1 /\ sets'[r] = 1 /\ store' = store)
  /\ (rpc[r] = "setting" /\ rpc'[r] # "setting") =>
       /\ rpc'[r] = "done"
       /\ DOMAIN store' = DOMAIN store \cup {key[r]}
       /\ store'[key[r]] = content[r]
       /\ \A k \in DOMAIN store \ {key[r]} : store'[k] = store[k]
       /\ ret'[r] = content[r]
       /\ fetches'[r] = 1 /\ sets'[r] = 1

\* The second call resumes from getItem: the entry of its key was stored by
\* an earlier call with the same id and mode.
SecondCallGot(r) ==
  /\ rpc[r] = "getting"
  /\ key[r] \in DOMAIN store
  /\ writer[key[r]] = call[r]
  /\ rpc'[r] # "getting"

ReturnsStored(r) ==
  /\ rpc'[r] = "done"
  /\ ret'[r] = store[key[r]]
  /\ fetches'[r] = 0
  /\ sets'[r] = 0
  /\ store' = store

\* C8, as stated: whatever value fetchContent returned to the first call, a
\* second sequential readFile with the same id in text mode returns the
\* stored value without calling fetchContent and without writing the store.
C8_SecondCallNeverFetches ==
  [][\A r \in Readers :
       (TextCall(r) /\ alone[r] /\ SecondCallGot(r)) => ReturnsStored(r)]_vars

\* C8, amended: for every id that is not absent, the first readFile in text
\* mode on a store with no entry for the key calls fetchContent exactly once,
\* stores the result under "gh.<id>" and returns it; a second sequential call
\* with the same id and mode returns the stored value without calling
\* fetchContent and without writing the store when the stored value is
\* truthy, and fetches and stores again when it is the empty string.
C8_ReadThrough ==
  [][\A r \in Readers :
       (TextCall(r) /\ alone[r]) =>
         /\ C8_FirstCall(r)
         /\ (SecondCallGot(r) /\ store[key[r]] # Str("")) => ReturnsStored(r)
         /\ (SecondCallGot(r) /\ store[key[r]] = Str("")) =>
              (rpc'[r] = "fetching" /\ fetches'[r] = 1)]_vars

C8_Witness ==
  \E r \in Readers, q \in Readers :
    /\ r # q
    /\ TextCall(r) /\ TextCall(q) /\ call[r] = call[q]
    /\ alone[r] /\ alone[q]
    /\ rpc[r] = "done" /\ fetches[r] = 1 /\ sets[r] = 1
    /\ rpc[q] = "done" /\ fetches[q] = 0 /\ sets[q] = 0
    /\ ret[q] = ret[r] /\ key[q] \in DOMAIN store /\ store[key[q]] = ret[r]

\* r is in a readFile call whose id is null, undefined or the empty string.
AbsentIdCall(r) ==
  /\ call[r].fn = "readFile"
  /\ (call[r].id.type \in {"null", "undefined"} \/ call[r].id.s = <<>>)

C9_State ==
  \A r \in Readers :
    AbsentIdCall(r) =>
      /\ key[r] = NoKey
      /\ rpc[r] \in {"fetching", "done"}
      /\ gets[r] = 0 /\ sets[r] = 0 /\ fetches[r] = 1
      /\ (rpc[r] = "done" => (ret[r] = content[r] /\ ret[r] \in Contents))

C9_Step ==
  \A r \in Readers :
    /\ (AbsentIdCall(r) /\ rpc'[r] # rpc[r]) =>
         (store' = store /\ writer' = writer)
    /\ (rpc[r] = "idle" /\ AbsentIdCall(r)') =>
         (store' = store /\ writer' = writer)

\* C9: a readFile call whose id is null, undefined or empty has no key, calls
\* fetchContent exactly once and returns what it resolved with, calls neither
\* getItem nor setItem, and none of its steps changes the store, whatever the
\* store holds.
C9_AbsentIdBypassesCache == []C9_State /\ [][C9_Step]_vars

C9_Witness ==
  \E r \in Readers :
    /\ AbsentIdCall(r) /\ call[r].id = StringId("") /\ rpc[r] = "done"
    /\ ret[r] = Str("x")
    /\ \E k \in DOMAIN store : store[k] = Blob("y")

\* The function and mode of a call.
Kind(c) == <<c.fn, c.isText>>

Keyed(r) == rpc[r] # "idle" /\ key[r] # NoKey

C10_State ==
  \A r \in Readers, q \in Readers :
    (Keyed(r) /\ Keyed(q) /\ call[r].id = call[q].id
       /\ Kind(call[r]) # Kind(call[q])) => key[r] # key[q]

C10_Keys ==
  \A r \in Readers :
    Keyed(r) =>
      key[r] = <<"g", "h", ".">> \o call[r].id.s \o
        (CASE Kind(call[r]) = <<"readFile", TRUE>> -> <<>>
           [] Kind(call[r]) = <<"readFile", FALSE>> ->
                <<".", "b", "l", "o", "b">>
           [] Kind(call[r]) = <<"readFileMetadata", FALSE>> ->
                <<".", "m", "e", "t", "a">>)

C10_Step ==
  \A r \in Readers :
    /\ (Keyed(r) /\ key[r] \in DOMAIN store
          /\ writer[key[r]].id = call[r].id) =>
         Kind(writer[key[r]]) = Kind(call[r])
    /\ rpc'[r] # rpc[r] =>
         /\ DOMAIN store' \ DOMAIN store \subseteq {key[r]}
         /\ \A k \in DOMAIN store \ {key[r]} :
              k \in DOMAIN store' /\ store'[k] = store[k]

\* C10: for one id, readFile in text mode, readFile in binary mode and
\* readFileMetadata use the keys "gh.<id>", "gh.<id>.blob" and
\* "gh.<id>.meta", which differ pairwise; so the item a call finds or
\* replaces under its key, when a call with the same id stored it, was
\* stored by a call of the same function and mode.
C10_SeparateKeys == []C10_State /\ []C10_Keys /\ [][C10_Step]_vars

C10_Witness ==
  \E r \in Readers, q \in Readers :
    /\ call[r] = [fn |-> "readFile", id |-> StringId("a"), isText |-> TRUE]
    /\ call[q] = [fn |-> "readFile", id |-> StringId("a"), isText |-> FALSE]
    /\ rpc[r] = "done" /\ rpc[q] = "done"
    /\ key[r] \in DOMAIN store /\ key[q] \in DOMAIN store
    /\ writer[key[r]] = call[r] /\ writer[key[q]] = call[q]
    /\ store[key[r]] = Str("x") /\ store[key[q]] = Blob("y")

\* r is in a readFileMetadata call.
MetadataCall(r) == call[r].fn = "readFileMetadata"

C11_State ==
  \A r \in Readers :
    MetadataCall(r) =>
      /\ key[r] = <<"g", "h", ".">> \o call[r].id.s \o
                    <<".", "m", "e", "t", "a">>
      /\ gets[r] = 1
      /\ fetches[r] <= 1 /\ sets[r] <= fetches[r]
      /\ (rpc[r] = "getting" => fetches[r] = 0)
      /\ (rpc[r] = "fetching" => (fetches[r] = 1 /\ sets[r] = 0))
      /\ (rpc[r] = "setting" => sets[r] = 1)
      /\ (rpc[r] = "done" /\ fetches[r] = 1) =>
           (sets[r] = 1 /\ ret[r] = content[r] /\ ret[r] \in Metadatas)

C11_Step ==
  \A r \in Readers :
    /\ (rpc[r] = "idle" /\ MetadataCall(r)') =>
         (rpc'[r] = "getting" /\ gets'[r] = 1 /\ store' = store)
    /\ (MetadataCall(r) /\ rpc[r] = "getting" /\ rpc'[r] # "getting") =>
         /\ store' = store
         /\ sets'[r] = 0
         /\ IF key[r] \in DOMAIN store
              THEN rpc'[r] = "done" /\ ret'[r] = store[key[r]]
                     /\ fetches'[r] = 0
              ELSE rpc'[r] = "fetching" /\ fetches'[r] = 1
    /\ (MetadataCall(r) /\ rpc[r] = "fetching" /\ rpc'[r] # "fetching") =>
         (rpc'[r] = "setting" /\ content'[r] \in Metadatas /\ store' = store)
    /\ (MetadataCall(r) /\ rpc[r] = "setting" /\ rpc'[r] # "setting") =>
         /\ rpc'[r] = "done"
         /\ DOMAIN store' = DOMAIN store \cup {key[r]}
         /\ store'[key[r]] = content[r]
         /\ \A k \in DOMAIN store \ {key[r]} : store'[k] = store[k]
         /\ ret'[r] = content[r]
    /\ (MetadataCall(r) /\ rpc[r] = "done") =>
         (rpc'[r] = "done" /\ ret'[r] = ret[r] /\ fetches'[r] = fetches[r]
            /\ sets'[r] = sets[r])

\* C11: every readFileMetadata call, whatever its id (the empty one too),
\* reads the store once under "gh.<id>.meta"; when the store holds an item
\* under that key the call returns it, calls fetchMetadata not at all and
\* writes nothing; otherwise it calls fetchMetadata exactly once, stores what
\* it resolved with under the key, leaving the other entries as they are,
\* and returns it.
C11_MetadataReadThrough == []C11_State /\ [][C11_Step]_vars

C11_Witness ==
  \E r \in Readers, q \in Readers :
    /\ r < q
    /\ MetadataCall(r) /\ MetadataCall(q)
    /\ call[r].id = StringId("") /\ call[q].id = StringId("")
    /\ rpc[r] = "done" /\ gets[r] = 1 /\ fetches[r] = 1 /\ sets[r] = 1
    /\ rpc[q] = "done" /\ gets[q] = 1 /\ fetches[q] = 0 /\ sets[q] = 0
    /\ ret[q] = ret[r] /\ store[key[q]] = ret[q]

\* A step in which invocation c enters the catch block.
Fails(c) == fails'[c] = fails[c] + 1

C12_State ==
  /\ Cardinality(timers) <= 1
  /\ rateLimiter # 0 <=> Cardinality(timers) = 1
  /\ \A t \in timers : t.lock = rateLimiter
  /\ rateLimiter \in 0..Len(locks)
  /\ rateLimiter # 0 => rateLimiter = Len(locks)

C12_Step ==
  /\ \A c \in Callers :
       (Fails(c) /\ rateLimiter # 0) =>
         /\ rateLimiter' = rateLimiter
         /\ Len(locks') = Len(locks)
         /\ timers' = timers
         /\ scheduled' = scheduled
  /\ \A t \in timers :
       t \notin timers' =>
         /\ t.lock = rateLimiter
         /\ rateLimiter' = 0
         /\ timers' = timers \ {t}
         /\ Len(locks') = Len(locks)
         /\ \A l \in 1..Len(locks) : l # t.lock => locks'[l] = locks[l]
         /\ locks'[t.lock].queue = Tail(locks[t.lock].queue)

\* C12: in every reachable state, with two or more invocations sharing the
\* handle, the lock field is set if and only if exactly one release timer is
\* pending, and that timer is the one scheduled with the lock in the field,
\* which is the latest lock made; a failure that finds the field set leaves
\* the field, the locks made, the timers and the count of timers scheduled
\* as they are; and a timer that fires releases the lock it was scheduled
\* with, which is the one in the field, and clears the field.
C12_AtMostOneCooldown == []C12_State /\ [][C12_Step]_vars

C12_Witness ==
  \E c \in Callers, d \in Callers :
    /\ c # d
    /\ fails[c] = 1 /\ fails[d] = 2
    /\ pc[c] = "waiting" /\ pc[d] = "waiting"
    /\ rateLimiter = 2 /\ Len(locks) = 2 /\ scheduled = 2
    /\ Cardinality(timers) = 1
    /\ Len(locks[2].queue) = 2

\* c and d are the only invocations made on the handle.
OnlyTwo(c, d) == \A e \in Callers \ {c, d} : pc[e] = "idle"

\* The first attempts of c and d raced: both requests were dispatched before
\* either failed, both have failed, and neither retry has been resumed.
Raced(c, d) ==
  /\ c # d /\ OnlyTwo(c, d)
  /\ start[c] = 1 /\ start[d] = 1
  /\ dispatches[c] = 1 /\ dispatches[d] = 1
  /\ fails[c] = 1 /\ fails[d] = 1
  /\ pc[c] = "waiting" /\ pc[d] = "waiting"

\* C13, as stated: the racing failures of two concurrent invocations both
\* install a cooldown lock and both schedule a release timer, which leaves
\* two release timers pending for the handle.
C13_BothFailuresInstall ==
  \A c \in Callers, d \in Callers :
    Raced(c, d) => (Len(locks) = 2 /\ Cardinality(timers) = 2)

C13_State ==
  /\ Cardinality(timers) <= 1
  /\ scheduled = Len(locks)
  /\ \A c \in Callers, d \in Callers :
       Raced(c, d) =>
         /\ Len(locks) = 1 /\ scheduled = 1 /\ rateLimiter = 1
         /\ Cardinality(timers) = 1
         /\ locks[1].queue \in {<<c, d>>, <<d, c>>}

C13_Step ==
  Len(locks') # Len(locks) =>
    /\ rateLimiter = 0 /\ timers = {}
    /\ Len(locks') = Len(locks) + 1
    /\ Cardinality(timers') = 1

\* C13, amended: no state with two release timers pending for one handle is
\* reachable: a lock is installed, one at a time and with its one timer,
\* only by a failure that finds the lock field clear and no timer pending,
\* and when the failures of two concurrent invocations race, the second
\* finds the lock of the first, so that one lock and one timer are
\* installed and both retries wait on that lock.
C13_RacingFailuresShareOneCooldown == []C13_State /\ [][C13_Step]_vars

C13_Witness ==
  \E c \in Callers, d \in Callers :
    Raced(c, d) /\ Cardinality(timers) = 1 /\ locks[1].queue = <<d, c>>

\* A step in which invocation c hands a request to the transport.
Dispatches(c) == dispatches'[c] = dispatches[c] + 1

\* C14: with two or more invocations sharing the handle, no step hands a
\* request to the transport while the lock field of the handle is set; the
\* requests dispatched before the lock was installed are not such steps.
C14_NoDispatchDuringCooldown ==
  [][\A c \in Callers :
       Dispatches(c) => (rateLimiter = 0 /\ rateLimiter' = 0)]_vars

\* Invocation c is suspended in the queue of lock l.
InQueue(c, l) == \E i \in 1..Len(locks[l].queue) : locks[l].queue[i] = c

C15_State ==
  LET queued == {l \in 1..Len(locks) : locks[l].queue # <<>>}
  IN /\ \A t \in timers : locks[t.lock].held
     /\ \A c \in Callers :
          /\ pc[c] = "waiting" <=> \E l \in queued : InQueue(c, l)
          /\ \A l \in queued, m \in queued :
               (InQueue(c, l) /\ InQueue(c, m)) => l = m

C15_Step ==
  \A c \in Callers :
    /\ (pc[c] # "waiting" /\ pc[c] # "acquired" /\ pc'[c] # pc[c]
          /\ rateLimiter' # 0 /\ ~Dispatches(c)
          /\ pc'[c] \notin {"settled", "reading", "returned", "raised"}) =>
         /\ pc'[c] = "waiting"
         /\ \E i \in 1..Len(locks'[rateLimiter'].queue) :
              locks'[rateLimiter'].queue[i] = c
         /\ \E t \in timers' : t.lock = rateLimiter'
    /\ (pc[c] \in {"idle", "settled", "reading"} /\ rateLimiter' # 0) =>
         ~Dispatches(c)
    /\ (pc[c] = "waiting" /\ pc'[c] # "waiting") =>
         /\ pc'[c] = "acquired"
         /\ ~Dispatches(c) /\ sent'[c] = sent[c]
         /\ \E t \in timers :
              t \notin timers' /\ locks[t.lock].queue # <<>>
                /\ c = Head(locks[t.lock].queue)
    /\ (pc[c] = "waiting" /\ pc'[c] = "waiting") =>
         (~Dispatches(c) /\ sent'[c] = sent[c])

\* C15: an attempt that reaches the acquire point while a cooldown lock is
\* installed, the retry of the call that installs it included, is suspended
\* in the queue of that lock, whose release timer is pending, without
\* decorating or dispatching its request; while it is suspended it neither
\* decorates nor dispatches; and it leaves the queue only in the step in
\* which the release timer of that very lock fires.
C15_ResumedOnlyAfterTimer == []C15_State /\ [][C15_Step]_vars

C15_Witness ==
  \E c \in Callers, d \in Callers :
    /\ c # d
    /\ fails[c] = 1 /\ dispatches[c] = 2 /\ pc[c] = "inflight"
    /\ start[d] = 1 /\ dispatches[d] = 0 /\ pc[d] = "waiting"
    /\ scheduled = 1 /\ timers = {} /\ InQueue(d, 1)

\* C16: every request the transport receives is the descriptor the caller
\* passed in, decorated exactly once: every attempt, the first and each
\* retry, is made with the caller's descriptor undecorated, and the step
\* that dispatches applies the decorator once to it.
C16_DecoratedOncePerAttempt ==
  /\ [](\A c \in Callers :
          /\ pc[c] # "idle" => req[c] = [url |-> c, deco |-> 0]
          /\ dispatches[c] > 0 => sent[c] = [url |-> c, deco |-> 1]
          /\ dispatches[c] = 0 => sent[c] = NoReq)
  /\ [][\A c \in Callers :
          Dispatches(c) => sent'[c] = [url |-> c, deco |-> 1]]_vars

C16_Witness ==
  \E c \in Callers :
    /\ start[c] = 1 /\ attempt[c] = 6 /\ dispatches[c] = 6 /\ fails[c] = 5
    /\ pc[c] = "inflight" /\ sent[c] = [url |-> c, deco |-> 1]

\* The step in which call r writes the store.
Writes(r) == rpc[r] = "setting" /\ rpc'[r] = "done"

\* The step in which the getItem of call r resolves.
Gets(r) == rpc[r] = "getting" /\ rpc'[r] # "getting"

\* C17, as stated: an entry is written at most once per key, and once a call
\* has returned a value for a key, every call for that key that starts
\* later returns the same value without fetching, however the calls
\* interleave.
C17_WrittenOnceTrustedForever ==
  /\ [][\A r \in Readers : Writes(r) => key[r] \notin DOMAIN store]_vars
  /\ [](\A r \in Readers, q \in Readers :
          (r < q /\ alone[q] /\ rpc[r] = "done" /\ rpc[q] = "done"
             /\ key[r] # NoKey /\ key[q] = key[r]) =>
            (ret[q] = ret[r] /\ fetches[q] = 0))

\* No call is between its miss and its write of key k.
NoFetchUnderWay(k) ==
  \A r \in Readers : rpc[r] \in {"fetching", "setting"} => key[r] # k

C17_Step ==
  /\ DOMAIN store \subseteq DOMAIN store'
  /\ \A k \in DOMAIN store :
       (Truthy(store[k]) /\ NoFetchUnderWay(k)) =>
         /\ store'[k] = store[k]
         /\ \A r \in Readers :
              rpc'[r] \in {"fetching", "setting"} => key'[r] # k
  /\ \A r \in Readers :
       (Gets(r) /\ key[r] \in DOMAIN store /\ Truthy(store[key[r]])) =>
         /\ rpc'[r] = "done"
         /\ ret'[r] = store[key[r]]
         /\ fetches'[r] = 0 /\ sets'[r] = 0
         /\ store' = store
  /\ \A r \in Readers :
       rpc[r] = "done" => (rpc'[r] = "done" /\ ret'[r] = ret[r])

\* C17, amended: with no external actor clearing or writing the store, no
\* entry is ever removed; an entry holding a truthy value, stored while no
\* other call is between its miss and its write of that key, is never
\* written again, and every call whose getItem finds it returns it without
\* fetching and without writing, however the calls interleave.
C17_TruthyEntryTrusted == [][C17_Step]_vars

C17_Witness ==
  \E r \in Readers, q \in Readers :
    /\ r < q /\ ~alone[q]
    /\ call[r] = [fn |-> "readFile", id |-> StringId("a"), isText |-> FALSE]
    /\ call[q] = call[r]
    /\ rpc[r] = "done" /\ fetches[r] = 1 /\ sets[r] = 1
    /\ rpc[q] = "done" /\ fetches[q] = 0 /\ sets[q] = 0
    /\ ret[r] = Blob("y") /\ ret[q] = ret[r] /\ store[key[r]] = ret[r]

C18_State ==
  \A r \in Readers :
    (rpc[r] # "idle" /\ key[r] # NoKey) =>
      /\ (rpc[r] \in {"fetching", "setting"} => fetches[r] = 1)
      /\ (rpc[r] = "setting" => sets[r] = 1)
      /\ (rpc[r] = "done" /\ fetches[r] = 1) =>
           (sets[r] = 1 /\ key[r] \in DOMAIN store /\ ret[r] = content[r])

C18_Step ==
  \A r \in Readers :
    /\ (Gets(r) /\ ~Truthy(GetItem(key[r]))) =>
         (rpc'[r] = "fetching" /\ fetches'[r] = 1)
    /\ (rpc[r] = "fetching" /\ key[r] # NoKey /\ rpc'[r] # "fetching") =>
         (rpc'[r] = "setting" /\ sets'[r] = 1)
    /\ Writes(r) =>
         /\ store'[key[r]] = content[r]
         /\ ret'[r] = content[r]
         /\ \A q \in Readers \ {r} : rpc'[q] = rpc[q] /\ ret'[q] = ret[q]

\* C18: a call whose getItem finds no truthy item calls the fetch function,
\* also when another call for the same key has missed and not yet written;
\* every call that missed writes what it fetched, over whatever the key
\* holds by then; so two concurrent calls for the same missing key both
\* fetch, both write, each returns what it fetched itself, and the store
\* keeps the item written last.
C18_NoDeduplicationLastWriteWins == []C18_State /\ [][C18_Step]_vars

\* Both calls missed, both fetched and both wrote; r wrote first.
C18_Witness ==
  \E r \in Readers, q \in Readers :
    /\ r # q /\ key[r] = key[q] /\ key[r] # NoKey
    /\ call[r] = call[q] /\ call[r].fn = "readFileMetadata"
    /\ rpc[r] = "done" /\ rpc[q] = "done"
    /\ fetches[r] = 1 /\ fetches[q] = 1 /\ sets[r] = 1 /\ sets[q] = 1
    /\ ret[r] = Metadata("m") /\ ret[q] = Metadata("n")
    /\ store[key[r]] = ret[q]

\* The call of r has ended with an error.
Failed(r) == rpc[r] = "failed"

C19_State ==
  \A r \in Readers :
    /\ Failed(r) <=> ret[r].type = "error"
    /\ Failed(r) =>
         /\ ret[r] = thrown[r]
         /\ thrown[r] \in GetItemErrors \cup FetchErrors \cup SetItemErrors
         /\ thrown[r] \in GetItemErrors =>
              (gets[r] = 1 /\ fetches[r] = 0 /\ sets[r] = 0)
         /\ thrown[r] \in FetchErrors => (fetches[r] = 1 /\ sets[r] = 0)
         /\ thrown[r] \in SetItemErrors => (fetches[r] = 1 /\ sets[r] = 1)

C19_Step ==
  \A r \in Readers :
    /\ (~Failed(r) /\ Failed(r)') =>
         /\ store' = store
         /\ gets'[r] = gets[r] /\ fetches'[r] = fetches[r]
         /\ sets'[r] = sets[r]
         /\ (rpc[r] = "getting" => thrown'[r] \in GetItemErrors)
         /\ (rpc[r] = "fetching" => thrown'[r] \in FetchErrors)
         /\ (rpc[r] = "setting" => thrown'[r] \in SetItemErrors)
    /\ Failed(r) =>
         /\ Failed(r)' /\ ret'[r] = ret[r]
         /\ gets'[r] = gets[r] /\ fetches'[r] = fetches[r]
         /\ sets'[r] = sets[r]

\* C19: a readFile or readFileMetadata call whose getItem, fetch function or
\* setItem rejects ends there, raising to its caller the very error the
\* rejection carried; the step leaves the store as it is; after a failed
\* fetch setItem is never called, and after a failed getItem neither the
\* fetch function nor setItem is.
C19_ErrorsPropagate == []C19_State /\ [][C19_Step]_vars

C19_Witness ==
  \E r \in Readers, q \in Readers :
    /\ call[r].fn = "readFile" /\ key[r] # NoKey
    /\ Failed(r) /\ ret[r] = Error("fetch failed") /\ sets[r] = 0
    /\ call[q].fn = "readFileMetadata"
    /\ rpc[q] = "done" /\ sets[q] = 1
    /\ DOMAIN store = {key[q]} /\ key[r] # key[q]

====
